---- MODULE Spec2Model ----
(***************************************************************************)
(* Model of the resume analysis service (src/app): the /analyze handler    *)
(* analyze_resumes of main.py, the completion helpers of llm.py and the    *)
(* audit sink of storage.py.                                               *)
(*                                                                         *)
(* Representation.                                                         *)
(*  - Python strings that the code only copies or compares as a whole      *)
(*    (file names, ids, the query, justifications) are TLA+ strings; the   *)
(*    token None stands for Python's None in an Optional[str].             *)
(*  - Strings that the code builds by concatenation and tests with         *)
(*    startswith (the extracted text of a file) are sequences of tokens,   *)
(*    so that f"OCR Error: {e}" is <<"OCR Error:">> \o e and startswith is *)
(*    a prefix test.  NoneT stands for None in such an Optional[str].      *)
(*  - Scores are integers in tenths: 10 is 1.0, -5 is -0.5.                *)
(*  - The field src of an entry is the 1-based position of its file in the *)
(*    submitted list; the code does not store it, it is kept to tell two   *)
(*    files of the same name apart.                                        *)
(***************************************************************************)
EXTENDS Integers, Sequences, FiniteSets, TLC

\* ---------------------------------------------------------------- bounds
MaxFiles == 3
\* the number of files a request of the two-request specification can carry
MaxReqFiles == 1
\* the number of files of a request in the specification with fairness
MaxLiveFiles == 2
\* the number of storage.py calls in the specification of the connection
MaxCalls == 4

\* ------------------------------------------------------- program constants
ScoreMin == 0
ScoreMax == 10

None == "None"
NoneT == <<"None">>

DEFAULT_USER_ID == "default-user-id"
GeneratedUuid == "uuid4"

OcrErrorPrefix == <<"OCR Error:">>
ProcessingErrorPrefix == <<"Processing Error:">>
NoTextExtracted == <<"No text extracted.">>

\* ------------------------------------------------------------ input domains
\* the k-th uploaded file is named a.pdf or b.png in turn, so that a request
\* of three files has two files of the same name
NameOf(k) == IF k % 2 = 1 THEN "a.pdf" ELSE "b.png"
Uploads(n) == [k \in 1..n |-> NameOf(k)]
Queries == {None, "", "python"}
\* (request_id, user_id) as sent: both omitted or empty, or both given
IdInputs == { <<None, "">>, <<"r1", "u1">> }

\* Texts the extractor can return for a document: nothing, an ordinary text,
\* and texts whose own content begins like (or equals) one of the handler's
\* markers.
DocTexts ==
    { <<>>, <<"cv">>, <<"OCR Error:", "cv">>, <<"No text extracted.">> }
ErrTexts == { <<"unsupported">> }

\* ocr.process_file returns (text, error); the handler also guards against it
\* raising.
ExtractOutcomes ==
    [kind : {"ret"}, text : DocTexts, err : {NoneT}]
    \cup [kind : {"ret"}, text : {NoneT}, err : ErrTexts]
    \cup [kind : {"raise"}, text : {NoneT}, err : ErrTexts]

\* ------------------------------------------------------------ Python helpers
\* truthiness of an Optional[str] held as a token sequence
TruthyT(t) == t # NoneT /\ t # <<>>

\* truthiness of an Optional[str] held as a string
Truthy(s) == s # None /\ s # ""

\* str.startswith
StartsWith(t, p) == Len(t) >= Len(p) /\ SubSeq(t, 1, Len(p)) = p

\* ------------------------------------------------------------------ llm.py
\* A field of the JSON object the completion service answers with: absent,
\* null, a string, or a number.
JAbsent == [t |-> "absent", s |-> "", n |-> 0]
JNull == [t |-> "null", s |-> "", n |-> 0]
JStr(x) == [t |-> "str", s |-> x, n |-> 0]
JNum(x) == [t |-> "num", s |-> "", n |-> x]

\* scores the completion service may report, in tenths: one below the range
\* and one above it
RawScores == {-5, 15}

\* what _call_gemini_api hands to evaluate_resume: None or an empty object
\* (present = FALSE), or an object with these two fields
EvalResult(p, j, sc) == [present |-> p, justification |-> j, score |-> sc]

EvalResults ==
    { EvalResult(FALSE, JAbsent, JAbsent),           \* no usable answer
      EvalResult(TRUE, JStr("fits"), JAbsent),       \* a key is missing
      EvalResult(TRUE, JStr("fits"), JNull),         \* score: null
      EvalResult(TRUE, JStr("fits"), JStr("high")),  \* score: not a number
      EvalResult(TRUE, JNull, JNum(5)),              \* justification: null
      EvalResult(TRUE, JNum(7), JNum(5)) }           \* justification: a number
    \cup { EvalResult(TRUE, JStr("fits"), JNum(r)) : r \in RawScores }

\* what _call_gemini_api hands to summarize_resume
SummResult(p, n, t, sm) == [present |-> p, name |-> n, title |-> t, summary |-> sm]

SummResults ==
    { SummResult(FALSE, JAbsent, JAbsent, JAbsent),              \* no usable answer
      SummResult(TRUE, JNum(7), JStr("Dev"), JStr("profile")),   \* name: a number
      SummResult(TRUE, JStr("Maria"), JStr("Dev"), JNull),       \* summary: null
      SummResult(TRUE, JAbsent, JAbsent, JAbsent),               \* an empty profile
      SummResult(TRUE, JStr("Maria"), JStr("Dev"), JStr("profile")) }

Min2(a, b) == IF a < b THEN a ELSE b
Max2(a, b) == IF a > b THEN a ELSE b

ClampNoUpper(score) == Max2(ScoreMin, score)

\* llm.py:179  score = max(0.0, min(1.0, score))
Clamp(score) == Max2(ScoreMin, Min2(ScoreMax, score))

EVAL_INVALID == "Erro ao analisar resposta da IA: formato invalido ou chaves ausentes."
EVAL_EXCEPTION == "Erro no processamento"
SUMM_INVALID == "Erro ao analisar resposta da IA: formato invalido."

\* dict.get(key) with no default: the value, or None for an absent key
Get(field) == IF field.t = "absent" THEN JNull ELSE field

\* evaluate_resume: the (title, justification, score) tuple; the title is
\* never read by the handler and is left out.  failed tells which of the
\* function's three exits was taken.
evaluate_resume(result) ==
    IF ~result.present \/ result.justification.t = "absent" \/ result.score.t = "absent"
    THEN [justification |-> JStr(EVAL_INVALID), score |-> 0, failed |-> TRUE]
    ELSE IF result.score.t # "num"
    THEN \* float(None) or float("high") raises; caught at llm.py:189
         [justification |-> JStr(EVAL_EXCEPTION), score |-> 0, failed |-> TRUE]
    ELSE [justification |-> Get(result.justification),
          score |-> Clamp(result.score.n), failed |-> FALSE]

\* Optional[ResumeSummary]: a ResumeSummary, or NoSummary for None.  The list
\* fields technologies, experiences and education are copied like title and
\* are left out.
NoSummary == [file_name |-> None, summary |-> None, name |-> None, title |-> None]

OptStr(field) == IF field.t = "str" THEN field.s ELSE None

\* summarize_resume
summarize_resume(result, file_name) ==
    IF ~result.present
    THEN [file_name |-> file_name, summary |-> SUMM_INVALID, name |-> None, title |-> None]
    ELSE IF result.name.t = "num" \/ result.summary.t = "null"
    THEN \* ResumeSummary(...) fails validation; caught at llm.py:127
         NoSummary
    ELSE [file_name |-> file_name,
          summary |-> IF result.summary.t = "absent" THEN "" ELSE result.summary.s,
          name |-> OptStr(result.name),
          title |-> OptStr(result.title)]

\* -------------------------------------------------------------- storage.py
\* how a connection attempt can go: the client constructor raises, the ping
\* raises, or both succeed
ConnOutcomes == {"ctor_fails", "ping_fails", "ok"}

Client == "client"
Database == "ia_teddy"

\* connect_to_mongo: the globals after the call and the returned boolean
connect_to_mongo(mc, d, outcome) ==
    CASE outcome = "ctor_fails" -> [mongo_client |-> mc, db |-> d, ret |-> FALSE]
      [] outcome = "ping_fails" -> [mongo_client |-> Client, db |-> Database, ret |-> FALSE]
      [] OTHER -> [mongo_client |-> Client, db |-> Database, ret |-> TRUE]

\* close_mongo_connection: the client is closed; neither global is reset
close_mongo_connection(mc, d) == [mongo_client |-> mc, db |-> d]

\* get_db: the globals after the call, and whether it raised RuntimeError
get_db(mc, d, outcome) ==
    IF d = None \/ mc = None
    THEN LET c == connect_to_mongo(mc, d, outcome)
         IN  [mongo_client |-> c.mongo_client, db |-> c.db, raised |-> ~c.ret]
    ELSE [mongo_client |-> mc, db |-> d, raised |-> FALSE]

\* save_log: get_db() is called outside the try block; insert_one inside it
save_log(mc, d, outcome, insertOk) ==
    LET g == get_db(mc, d, outcome)
    IN  [mongo_client |-> g.mongo_client, db |-> g.db,
         result |-> IF g.raised THEN "raise" ELSE IF insertOk THEN "true" ELSE "false",
         stored |-> ~g.raised /\ insertOk]

\* ----------------------------------------------------------------- main.py
TIMEOUT_JUSTIFICATION == "Timeout durante o processamento LLM."
IGNORED_JUSTIFICATION == "Ignorado devido a falha na extracao de texto via OCR."
NO_JUSTIFICATION == "No justification provided."
SUMMARY_FAILED == "Falha ao gerar resumo. O modelo LLM nao retornou resultados."
SUMMARY_TIMEOUT == "Timeout durante a geracao do resumo."

\* main.py:210-229  the text recorded in the file's ResumeFile
ProcessedText(out) ==
    IF out.kind = "raise" THEN ProcessingErrorPrefix \o out.err
    ELSE IF TruthyT(out.err) THEN OcrErrorPrefix \o out.err
    ELSE IF ~TruthyT(out.text) THEN NoTextExtracted
    ELSE out.text

ErrorNotesSilentOnEmpty(filename, out) ==
    IF out.kind = "raise" THEN << <<filename, ": Processing Error - ">> \o out.err >>
    ELSE IF TruthyT(out.err) THEN << <<filename, ": OCR Error - ">> \o out.err >>
    ELSE << >>

\* main.py:213,219,228  the notes appended to error_messages_for_log
ErrorNotes(filename, out) ==
    IF out.kind = "raise" THEN << <<filename, ": Processing Error - ">> \o out.err >>
    ELSE IF TruthyT(out.err) THEN << <<filename, ": OCR Error - ">> \o out.err >>
    ELSE IF ~TruthyT(out.text) THEN << <<filename, ": No text extracted after OCR.">> >>
    ELSE << >>

\* main.py:232  the filter that selects the files passed on to the completion
\* service
IsValidForLlm(text) ==
    /\ TruthyT(text)
    /\ ~StartsWith(text, OcrErrorPrefix)
    /\ ~StartsWith(text, ProcessingErrorPrefix)
    /\ text # NoTextExtracted

RECURSIVE SelectValid(_)
SelectValid(ps) ==
    IF ps = <<>> THEN <<>>
    ELSE (IF IsValidForLlm(Head(ps).text) THEN <<Head(ps)>> ELSE <<>>)
         \o SelectValid(Tail(ps))

SelectModeNotNone(q) == IF q # None THEN "ranking" ELSE "summaries"

\* main.py:243  if query: ... else: ...
SelectMode(q) == IF Truthy(q) THEN "ranking" ELSE "summaries"

\* main.py:282-286
TimeoutMatch(rf) ==
    [file_name |-> rf.filename, score |-> 0, justification |-> TIMEOUT_JUSTIFICATION,
     name |-> None, title |-> None, src |-> rf.src]

\* main.py:288-292
IgnoredMatch(rf) ==
    [file_name |-> rf.filename, score |-> 0, justification |-> IGNORED_JUSTIFICATION,
     name |-> None, title |-> None, src |-> rf.src]

\* models.py:25  justification: str -- a value that is neither a string nor
\* None (replaced at main.py:276) fails validation
QueryMatchValid(just) == just.t \in {"str", "null"}

QueryMatchDetailOverrides(rf, sc, just, details) ==
    [file_name |-> rf.filename,
     score |-> sc,
     justification |-> IF details # NoSummary THEN details.summary
                       ELSE IF just.t = "null" THEN NO_JUSTIFICATION ELSE just.s,
     name |-> IF details # NoSummary THEN details.name ELSE None,
     title |-> IF details # NoSummary THEN details.title ELSE None,
     src |-> rf.src]

QueryMatchZeroOnDetailFailure(rf, sc, just, details) ==
    [file_name |-> rf.filename,
     score |-> IF details # NoSummary THEN sc ELSE 0,
     justification |-> IF details = NoSummary THEN EVAL_INVALID
                       ELSE IF just.t = "null" THEN NO_JUSTIFICATION ELSE just.s,
     name |-> IF details # NoSummary THEN details.name ELSE None,
     title |-> IF details # NoSummary THEN details.title ELSE None,
     src |-> rf.src]

\* main.py:273-279
QueryMatch(rf, sc, just, details) ==
    [file_name |-> rf.filename,
     score |-> sc,
     justification |-> IF just.t = "null" THEN NO_JUSTIFICATION ELSE just.s,
     name |-> IF details # NoSummary THEN details.name ELSE None,
     title |-> IF details # NoSummary THEN details.title ELSE None,
     src |-> rf.src]

\* list.sort(key=score, reverse=True) is stable: an element is placed after
\* every element whose score is at least its own
RECURSIVE InsertDesc(_, _)
InsertDesc(sorted, e) ==
    IF sorted = <<>> THEN <<e>>
    ELSE IF Head(sorted).score >= e.score
         THEN <<Head(sorted)>> \o InsertDesc(Tail(sorted), e)
         ELSE <<e>> \o sorted

RECURSIVE InsertDescUnstable(_, _)
InsertDescUnstable(sorted, e) ==
    IF sorted = <<>> THEN <<e>>
    ELSE IF Head(sorted).score > e.score
         THEN <<Head(sorted)>> \o InsertDescUnstable(Tail(sorted), e)
         ELSE <<e>> \o sorted

RECURSIVE SortUnstable(_)
SortUnstable(rs) ==
    IF rs = <<>> THEN <<>>
    ELSE InsertDescUnstable(SortUnstable(SubSeq(rs, 1, Len(rs) - 1)), rs[Len(rs)])

\* main.py:295  ranking_results.sort(key=lambda x: x.score, reverse=True)
RECURSIVE SortRanking(_)
SortRanking(rs) ==
    IF rs = <<>> THEN <<>>
    ELSE InsertDesc(SortRanking(SubSeq(rs, 1, Len(rs) - 1)), rs[Len(rs)])

\* main.py:325,328,330  placeholder summaries
PlaceholderSummary(rf, text) ==
    [file_name |-> rf.filename, summary |-> text, name |-> None, title |-> None,
     src |-> rf.src]

\* main.py:322  the summary as returned by summarize_resume
KeptSummary(rf, s) ==
    [file_name |-> s.file_name, summary |-> s.summary, name |-> s.name,
     title |-> s.title, src |-> rf.src]

\* "; ".join(error_messages_for_log)
RECURSIVE Join(_)
Join(msgs) ==
    IF Len(msgs) = 1 THEN Head(msgs)
    ELSE Head(msgs) \o <<"; ">> \o Join(Tail(msgs))

\* main.py:298-303
RankingResponse(rid, uid, q, ranking) ==
    [kind |-> "ranking", request_id |-> rid, user_id |-> uid, query |-> q,
     items |-> ranking]

\* main.py:334-338
SummariesResponse(rid, uid, summaries) ==
    [kind |-> "summaries", request_id |-> rid, user_id |-> uid, query |-> None,
     items |-> summaries]

LogEntryStampedLater(rid, uid, ts, q, names, final_result, msgs) ==
    [request_id |-> rid, user_id |-> uid, timestamp |-> ts + 1, query |-> q,
     files_processed |-> names, result |-> final_result,
     error_message |-> IF msgs # <<>> THEN Join(msgs) ELSE NoneT]

LogEntryResultNames(rid, uid, ts, q, names, final_result, msgs) ==
    [request_id |-> rid, user_id |-> uid, timestamp |-> ts, query |-> q,
     files_processed |-> [k \in 1..Len(final_result) |-> final_result[k].file_name], result |-> final_result,
     error_message |-> IF msgs # <<>> THEN Join(msgs) ELSE NoneT]

\* main.py:343-351
LogEntry(rid, uid, ts, q, names, final_result, msgs) ==
    [request_id |-> rid, user_id |-> uid, timestamp |-> ts, query |-> q,
     files_processed |-> names, result |-> final_result,
     error_message |-> IF msgs # <<>> THEN Join(msgs) ELSE NoneT]

RaiseOnAuditFailure(saveResult) == IF saveResult = "raise" THEN 500 ELSE 200

\* main.py:353-361  whatever save_log does, the handler returns response_data
StatusAfterAudit(saveResult) == 200

\* ------------------------------------------------------------------- state
VARIABLES
    mongo_client, db, logs,          \* storage.py globals; the logs collection
    pc, now,                         \* position of the handler; wall clock
    files, query, request_id, user_id,
    start_time, i,
    log_file_names, processed_files_info, error_messages_for_log,
    valid_resumes_for_llm,
    justification, score,            \* results of the awaited evaluate_resume
    ranking_results, summaries, response_data, log_entry,
    status, body,                    \* what the caller receives
    extracted,                       \* per file, how the extractor answered
    extractCalls, completionCalls, auditAttempts,
    last,                            \* how the latest file's sub-calls went
    auditResult,
    req,                             \* the locals of each of two concurrent handler runs
    calls,                           \* the storage.py calls made so far, with their outcome
    pinged,                          \* a ping has succeeded since the last close
    lastConnect,                     \* how the latest connect_to_mongo went
    got, retried                     \* the latest get_db: its result; whether it connected

storageVars == <<mongo_client, db, logs>>
requestVars == <<files, query, request_id, user_id, start_time>>
extractVars == <<log_file_names, processed_files_info, error_messages_for_log,
                 valid_resumes_for_llm, extracted, extractCalls>>
evalVars == <<justification, score, ranking_results, summaries, response_data,
              log_entry, completionCalls, last>>
replyVars == <<status, body>>
auditVars == <<auditAttempts, auditResult>>
concVars == <<req>>
traceVars == <<calls, pinged, lastConnect, got, retried>>
sideVars == <<concVars, traceVars>>
vars == <<storageVars, pc, now, requestVars, i, extractVars, evalVars, replyVars,
          auditVars, sideVars>>

NoResponse == [kind |-> "none", request_id |-> None, user_id |-> None,
               query |-> None, items |-> <<>>]
NoLogEntry == [request_id |-> None, user_id |-> None, timestamp |-> 0,
               query |-> None, files_processed |-> <<>>, result |-> <<>>,
               error_message |-> NoneT]
NoCall == [src |-> 0, ev |-> "none", dt |-> "none"]

\* the two handler runs that can be in flight together
Requests == {1, 2}

\* main.py:129-174  the locals of a handler run that has not started
NoRequest ==
    [pc |-> "idle", files |-> <<>>, query |-> None, request_id |-> None,
     user_id |-> None, start_time |-> 0, i |-> 0, log_file_names |-> <<>>,
     processed_files_info |-> <<>>, error_messages_for_log |-> <<>>,
     valid_resumes_for_llm |-> <<>>, justification |-> JNull, score |-> 0,
     ranking_results |-> <<>>, summaries |-> <<>>, response_data |-> NoResponse,
     log_entry |-> NoLogEntry, status |-> 0, body |-> NoResponse,
     outs |-> <<>>]

\* no handler run has started and no storage call has been traced
SideInit ==
    /\ req = [r \in Requests |-> NoRequest]
    /\ calls = <<>> /\ pinged = FALSE /\ lastConnect = "none"
    /\ got = "none" /\ retried = FALSE

Init ==
    /\ SideInit
    /\ mongo_client = None /\ db = None /\ logs = <<>>
    /\ pc = "boot" /\ now = 0
    /\ files = <<>> /\ query = None /\ request_id = None /\ user_id = None
    /\ start_time = 0 /\ i = 0
    /\ log_file_names = <<>> /\ processed_files_info = <<>>
    /\ error_messages_for_log = <<>> /\ valid_resumes_for_llm = <<>>
    /\ extracted = <<>> /\ extractCalls = 0
    /\ justification = JNull /\ score = 0
    /\ ranking_results = <<>> /\ summaries = <<>>
    /\ response_data = NoResponse /\ log_entry = NoLogEntry
    /\ completionCalls = <<>> /\ last = NoCall
    /\ status = 0 /\ body = NoResponse
    /\ auditAttempts = 0 /\ auditResult = "none"

\* lifespan, startup half (main.py:28-40)
Startup ==
    /\ pc = "boot"
    /\ \E outcome \in ConnOutcomes :
         LET c == connect_to_mongo(mongo_client, db, outcome)
         IN  mongo_client' = c.mongo_client /\ db' = c.db
    /\ pc' = "idle"
    /\ now' = now + 1
    /\ UNCHANGED sideVars
    /\ UNCHANGED <<logs, requestVars, i, extractVars, evalVars, replyVars,
                   auditVars>>

\* exceptions raised inside the handler's try block
HTTPException(code) == [http |-> TRUE, code |-> code]
ValidationError == [http |-> FALSE, code |-> 0]
TimeoutError == [http |-> FALSE, code |-> 1]

OuterExceptAll500(exc) == 500

\* main.py:363-368  an HTTPException is re-raised as it is, anything else
\* becomes a 500
OuterExcept(exc) == IF exc.http THEN exc.code ELSE 500

RaiseWithPartial(exc) ==
    /\ status' = OuterExcept(exc)
    /\ body' = (IF SelectMode(query) = "ranking"
                THEN RankingResponse(request_id, user_id, query, ranking_results)
                ELSE SummariesResponse(request_id, user_id, summaries))
    /\ pc' = "done"

\* an exception that reaches the outer handlers: the caller gets the error
\* status and no payload
Raise(exc) == status' = OuterExcept(exc) /\ body' = NoResponse /\ pc' = "done"

\* main.py:159-179  the request is rejected when it has no files; otherwise the
\* ids are defaulted and the start time is taken
Receive ==
    /\ pc = "idle"
    /\ \E n \in 0..MaxFiles, q \in Queries, ids \in IdInputs :
         /\ files' = Uploads(n) /\ query' = q
         /\ IF Uploads(n) = <<>>
            THEN /\ Raise(HTTPException(400))
                 /\ request_id' = ids[1] /\ user_id' = ids[2]
                 /\ UNCHANGED <<start_time, i>>
            ELSE /\ request_id' = (IF Truthy(ids[1]) THEN ids[1] ELSE GeneratedUuid)
                 /\ user_id' = (IF Truthy(ids[2]) THEN ids[2] ELSE DEFAULT_USER_ID)
                 /\ start_time' = now
                 /\ i' = 1 /\ pc' = "read"
                 /\ UNCHANGED replyVars
    /\ now' = now + 1
    /\ UNCHANGED sideVars
    /\ UNCHANGED <<storageVars, extractVars, evalVars, auditVars>>

\* main.py:183-195  one iteration of the read loop; a failed read ends the
\* request with a 400
ReadFile ==
    /\ pc = "read"
    /\ \E readOk \in BOOLEAN :
         IF readOk
         THEN /\ log_file_names' = Append(log_file_names, files[i])
              /\ IF i < Len(files)
                 THEN i' = i + 1 /\ pc' = pc
                 ELSE i' = 1 /\ pc' = "ocr"
              /\ UNCHANGED replyVars
         ELSE /\ Raise(HTTPException(400))
              /\ UNCHANGED <<log_file_names, i>>
    /\ now' = now + 1
    /\ UNCHANGED sideVars
    /\ UNCHANGED <<storageVars, requestVars, processed_files_info,
                   error_messages_for_log, valid_resumes_for_llm, extracted,
                   extractCalls, evalVars, auditVars>>

ExtractFileAbortsOnFailure ==
    /\ pc = "ocr"
    /\ \E out \in ExtractOutcomes :
         LET filename == log_file_names[i]
             rf == [filename |-> filename, text |-> ProcessedText(out), src |-> i]
             infos == Append(processed_files_info, rf)
             valid == SelectValid(infos)
         IN  /\ processed_files_info' = infos
             /\ error_messages_for_log' =
                    error_messages_for_log \o ErrorNotes(filename, out)
             /\ extracted' = Append(extracted,
                    IF out.kind = "raise" THEN "raise"
                    ELSE IF TruthyT(out.err) THEN "error"
                    ELSE IF out.text = <<>> THEN "empty" ELSE "text")
             /\ IF out.kind = "raise" \/ TruthyT(out.err)
                THEN /\ Raise(ValidationError)
                     /\ UNCHANGED <<i, valid_resumes_for_llm>>
                ELSE IF i < Len(log_file_names)
                THEN /\ i' = i + 1 /\ pc' = pc
                     /\ UNCHANGED <<valid_resumes_for_llm, replyVars>>
                ELSE /\ valid_resumes_for_llm' = valid
                     /\ IF valid = <<>>
                        THEN Raise(HTTPException(400)) /\ i' = i
                        ELSE /\ i' = 1
                             /\ pc' = (IF SelectMode(query) = "ranking"
                                       THEN "evaluate" ELSE "summarize")
                             /\ UNCHANGED replyVars
    /\ extractCalls' = extractCalls + 1
    /\ now' = now + 1
    /\ UNCHANGED sideVars
    /\ UNCHANGED <<storageVars, requestVars, log_file_names, evalVars, auditVars>>

\* main.py:199-238  one iteration of the extraction loop; after the last file
\* the eligible files are selected and the request is rejected when there are
\* none
ExtractFile ==
    /\ pc = "ocr"
    /\ \E out \in ExtractOutcomes :
         LET filename == log_file_names[i]
             rf == [filename |-> filename, text |-> ProcessedText(out), src |-> i]
             infos == Append(processed_files_info, rf)
             valid == SelectValid(infos)
         IN  /\ processed_files_info' = infos
             /\ error_messages_for_log' =
                    error_messages_for_log \o ErrorNotes(filename, out)
             /\ extracted' = Append(extracted,
                    IF out.kind = "raise" THEN "raise"
                    ELSE IF TruthyT(out.err) THEN "error"
                    ELSE IF out.text = <<>> THEN "empty" ELSE "text")
             /\ IF i < Len(log_file_names)
                THEN /\ i' = i + 1 /\ pc' = pc
                     /\ UNCHANGED <<valid_resumes_for_llm, replyVars>>
                ELSE /\ valid_resumes_for_llm' = valid
                     /\ IF valid = <<>>
                        THEN Raise(HTTPException(400)) /\ i' = i
                        ELSE /\ i' = 1
                             /\ pc' = (IF SelectMode(query) = "ranking"
                                       THEN "evaluate" ELSE "summarize")
                             /\ UNCHANGED replyVars
    /\ extractCalls' = extractCalls + 1
    /\ now' = now + 1
    /\ UNCHANGED sideVars
    /\ UNCHANGED <<storageVars, requestVars, log_file_names, evalVars, auditVars>>

AppendMatchStopsEarly(entry) ==
    LET sorted == SortRanking(Append(ranking_results, entry))
    IN  /\ UNCHANGED <<summaries, replyVars>>
        /\ ranking_results' = sorted
        /\ response_data' = RankingResponse(request_id, user_id, query, sorted)
        /\ log_entry' = LogEntry(request_id, user_id, start_time, query,
                                 log_file_names, sorted, error_messages_for_log)
        /\ i' = i /\ pc' = "audit"

\* main.py:273-304  append the file's entry; after the last eligible file the
\* ranking is sorted and the response and the audit record are assembled
AppendMatch(entry) ==
    LET rs == Append(ranking_results, entry)
    IN  /\ UNCHANGED <<summaries, replyVars>>
        /\ IF i < Len(valid_resumes_for_llm)
           THEN /\ ranking_results' = rs
                /\ i' = i + 1 /\ pc' = "evaluate"
                /\ UNCHANGED <<response_data, log_entry>>
           ELSE LET sorted == SortRanking(rs)
                IN  /\ ranking_results' = sorted
                    /\ response_data' =
                           RankingResponse(request_id, user_id, query, sorted)
                    /\ log_entry' =
                           LogEntry(request_id, user_id, start_time, query,
                                    log_file_names, sorted, error_messages_for_log)
                    /\ i' = i /\ pc' = "audit"

\* the TimeoutError of asyncio.wait_for, were it not caught inside the loop
TimeoutEscapes(rf) ==
    /\ Raise(TimeoutError) /\ i' = i
    /\ UNCHANGED <<ranking_results, summaries, response_data, log_entry>>

\* the completion call awaited without a budget: a call that does not return
\* leaves the handler waiting
AwaitsWithoutBudget(rf) ==
    /\ pc' = "waiting" /\ i' = i
    /\ UNCHANGED <<ranking_results, summaries, response_data, log_entry, replyVars>>

\* main.py:280-286  except asyncio.TimeoutError: the file gets the timeout
\* entry and the loop goes on
OnRankingTimeout(rf) == AppendMatch(TimeoutMatch(rf))

\* main.py:248-263,280-292  ranking mode, first sub-call of a file: the
\* compatibility evaluation under its 60 s budget
EvaluateFile ==
    /\ pc = "evaluate"
    /\ LET rf == valid_resumes_for_llm[i]
       IN  IF TruthyT(rf.text)
           THEN /\ completionCalls' = Append(completionCalls, <<rf.src, "evaluate">>)
                /\ \E timedOut \in BOOLEAN, result \in EvalResults :
                     IF timedOut
                     THEN /\ last' = [src |-> rf.src, ev |-> "timeout", dt |-> "none"]
                          /\ OnRankingTimeout(rf)
                          /\ UNCHANGED <<justification, score>>
                     ELSE LET e == evaluate_resume(result)
                          IN  /\ justification' = e.justification
                              /\ score' = e.score
                              /\ last' = [src |-> rf.src,
                                          ev |-> IF e.failed THEN "fail" ELSE "ok",
                                          dt |-> "none"]
                              /\ pc' = "details" /\ i' = i
                              /\ UNCHANGED <<ranking_results, summaries,
                                             response_data, log_entry, replyVars>>
           ELSE /\ AppendMatch(IgnoredMatch(rf))
                /\ UNCHANGED <<justification, score, completionCalls, last>>
    /\ now' = now + 1
    /\ UNCHANGED sideVars
    /\ UNCHANGED <<storageVars, requestVars, extractVars, auditVars>>

\* main.py:265-286  ranking mode, second sub-call of a file: the detail
\* extraction under its 30 s budget, then the QueryMatch entry
DetailFile ==
    /\ pc = "details"
    /\ LET rf == valid_resumes_for_llm[i]
       IN  /\ completionCalls' = Append(completionCalls, <<rf.src, "summarize">>)
           /\ \E timedOut \in BOOLEAN, result \in SummResults :
             IF timedOut
             THEN /\ last' = [last EXCEPT !.dt = "timeout"]
                  /\ OnRankingTimeout(rf)
             ELSE LET d == summarize_resume(result, rf.filename)
                  IN  /\ last' = [last EXCEPT !.dt =
                                    IF ~result.present \/ d = NoSummary
                                    THEN "fail" ELSE "ok"]
                      /\ IF QueryMatchValid(justification)
                         THEN AppendMatch(QueryMatch(rf, score, justification, d))
                         ELSE \* ValidationError reaches main.py:366
                              /\ Raise(ValidationError) /\ i' = i
                              /\ UNCHANGED <<ranking_results, summaries,
                                             response_data, log_entry>>
    /\ now' = now + 1
    /\ UNCHANGED sideVars
    /\ UNCHANGED <<storageVars, requestVars, extractVars, justification, score,
                   auditVars>>

\* main.py:322-339  append the file's summary; after the last eligible file
\* the response and the audit record are assembled
AppendSummary(entry) ==
    LET ss == Append(summaries, entry)
    IN  /\ summaries' = ss
        /\ UNCHANGED <<ranking_results, replyVars>>
        /\ IF i < Len(valid_resumes_for_llm)
           THEN /\ i' = i + 1 /\ pc' = "summarize"
                /\ UNCHANGED <<response_data, log_entry>>
           ELSE /\ response_data' = SummariesResponse(request_id, user_id, ss)
                /\ log_entry' =
                       LogEntry(request_id, user_id, start_time, query,
                                log_file_names, ss, error_messages_for_log)
                /\ i' = i /\ pc' = "audit"

\* main.py:326-328  except asyncio.TimeoutError: the file gets the timeout
\* summary and the loop goes on
OnSummaryTimeout(rf) == AppendSummary(PlaceholderSummary(rf, SUMMARY_TIMEOUT))

\* main.py:310-330  summary mode, one file: summarize_resume under its 30 s
\* budget
SummarizeFile ==
    /\ pc = "summarize"
    /\ LET rf == valid_resumes_for_llm[i]
       IN  IF TruthyT(rf.text)
           THEN /\ completionCalls' = Append(completionCalls, <<rf.src, "summarize">>)
                /\ \E timedOut \in BOOLEAN, result \in SummResults :
                     IF timedOut
                     THEN /\ last' = [src |-> rf.src, ev |-> "none", dt |-> "timeout"]
                          /\ OnSummaryTimeout(rf)
                     ELSE LET s == summarize_resume(result, rf.filename)
                          IN  /\ last' = [src |-> rf.src, ev |-> "none",
                                          dt |-> IF ~result.present \/ s = NoSummary
                                                 THEN "fail" ELSE "ok"]
                              /\ IF s # NoSummary
                                 THEN AppendSummary(KeptSummary(rf, s))
                                 ELSE AppendSummary(PlaceholderSummary(rf, SUMMARY_FAILED))
           ELSE /\ AppendSummary(PlaceholderSummary(rf, IGNORED_JUSTIFICATION))
                /\ UNCHANGED <<completionCalls, last>>
    /\ now' = now + 1
    /\ UNCHANGED sideVars
    /\ UNCHANGED <<storageVars, requestVars, extractVars, justification, score,
                   auditVars>>

\* storage.py:53-64  the dictionary inserted into the logs collection: the
\* record's fields with the timestamp in ISO format
LogDict(entry) == [entry EXCEPT !.timestamp = <<"iso", entry.timestamp>>]

\* main.py:353-361  the audit write, then the response
SaveLog ==
    /\ pc = "audit"
    /\ \E outcome \in ConnOutcomes, insertOk \in BOOLEAN :
         LET r == save_log(mongo_client, db, outcome, insertOk)
             code == StatusAfterAudit(r.result)
         IN  /\ mongo_client' = r.mongo_client /\ db' = r.db
             /\ logs' = IF r.stored THEN Append(logs, LogDict(log_entry)) ELSE logs
             /\ auditResult' = r.result
             /\ status' = code
             /\ body' = IF code = 200 THEN response_data ELSE NoResponse
    /\ auditAttempts' = auditAttempts + 1
    /\ pc' = "done"
    /\ now' = now + 1
    /\ UNCHANGED sideVars
    /\ UNCHANGED <<requestVars, i, extractVars, evalVars>>

Next ==
    \/ Startup
    \/ Receive
    \/ ReadFile
    \/ ExtractFile
    \/ EvaluateFile
    \/ DetailFile
    \/ SummarizeFile
    \/ SaveLog

Spec == Init /\ [][Next]_vars

\* the steps of a request after it has been received
HandlerStep ==
    \/ ReadFile
    \/ ExtractFile
    \/ EvaluateFile
    \/ DetailFile
    \/ SummarizeFile
    \/ SaveLog

\* The event loop resumes the handler whenever the call it awaits has
\* returned or its wait_for budget has expired; the uploads, the extractor
\* and save_log are taken to return.
\* Requests of at most MaxLiveFiles files.
ReceiveFew == Receive /\ Len(files') <= MaxLiveFiles

FairNext ==
    \/ Startup
    \/ ReceiveFew
    \/ HandlerStep

FairSpec == Init /\ [][FairNext]_vars /\ WF_vars(HandlerStep)

\* ====================================================== concurrent requests
\* Two runs of analyze_resumes in flight on one event loop.  Each run has its
\* own locals (req[r]); the storage globals and the logs collection are
\* shared.  A run takes a step only when the loop thread is not held by the
\* other run.

\* what process_file does with a file: a PDF with embedded text is answered
\* at once (ocr.py:83-92), a PDF without it is recognised page by page inside
\* the coroutine (ocr.py:98-110), an image is recognised in the default
\* executor (ocr.py:128-129)
FileKinds == {"pdf_text", "pdf_scan", "image"}

ConcNames == << <<"r1_f1", "r1_f2", "r1_f3">>, <<"r2_f1", "r2_f2", "r2_f3">> >>

ConcUploads(r) ==
    UNION { { [k \in 1..n |-> [filename |-> ConcNames[r][k], kind |-> kinds[k]]] :
                  kinds \in [1..n -> FileKinds] } : n \in 0..MaxReqFiles }

ConcQueries == {None, "python"}

\* request 1 sends its ids, request 2 leaves them out
ConcIds(r) == IF r = 1 THEN <<"r1", "u1">> ELSE <<None, None>>

\* what the extractor can answer for a file of each kind
ConcOutcomes(kind) ==
    IF kind = "pdf_text" THEN { [kind |-> "ret", text |-> <<"cv">>, err |-> NoneT] }
    ELSE IF kind = "pdf_scan"
    THEN { [kind |-> "ret", text |-> <<"cv">>, err |-> NoneT],
           [kind |-> "ret", text |-> <<>>, err |-> NoneT] }
    ELSE { [kind |-> "ret", text |-> <<"cv">>, err |-> NoneT],
           [kind |-> "ret", text |-> NoneT, err |-> <<"unsupported">>] }

ConcEvalResults ==
    { EvalResult(TRUE, JStr("fits"), JNum(15)) }
ConcSummResults ==
    { SummResult(TRUE, JStr("Maria"), JStr("Dev"), JStr("profile")) }

\* how an awaited completion call under wait_for ends: the budget expires, or
\* the call returns a result
Expired == [timedOut |-> TRUE, val |-> "expired"]
Returned(results) == { [timedOut |-> FALSE, val |-> x] : x \in results }

\* the loop thread is not inside another run's blocking call
LoopFree(r) == \A s \in Requests \ {r} : req[s].pc # "readtext"

\* main.py:363-368  the run ends with the error status and no payload
ConcRaise(rq, exc) ==
    [rq EXCEPT !.status = OuterExcept(exc), !.body = NoResponse, !.pc = "done"]

\* main.py:159-174
ConcReceive(r) ==
    /\ pc = "idle" /\ req[r].pc = "idle" /\ LoopFree(r)
    /\ \E upload \in ConcUploads(r), q \in ConcQueries :
         LET ids == ConcIds(r)
             rq == [req[r] EXCEPT !.files = upload, !.query = q]
         IN  req' = [req EXCEPT ![r] =
                 IF upload = <<>>
                 THEN ConcRaise([rq EXCEPT !.request_id = ids[1], !.user_id = ids[2]],
                                HTTPException(400))
                 ELSE [rq EXCEPT
                          !.request_id = IF Truthy(ids[1]) THEN ids[1] ELSE GeneratedUuid,
                          !.user_id = IF Truthy(ids[2]) THEN ids[2] ELSE DEFAULT_USER_ID,
                          !.start_time = now, !.i = 1, !.pc = "read"]]
    /\ UNCHANGED <<storageVars, pc, now, requestVars, i, extractVars, evalVars,
                   replyVars, auditVars, traceVars>>

\* main.py:183-195  await file.read()
ConcReadFile(r) ==
    /\ req[r].pc = "read" /\ LoopFree(r)
    /\ \E readOk \in BOOLEAN :
         LET rq == req[r]
         IN  req' = [req EXCEPT ![r] =
                 IF readOk
                 THEN [rq EXCEPT
                          !.log_file_names = Append(@, rq.files[rq.i].filename),
                          !.i = IF rq.i < Len(rq.files) THEN rq.i + 1 ELSE 1,
                          !.pc = IF rq.i < Len(rq.files) THEN "read" ELSE "ocr"]
                 ELSE ConcRaise(rq, HTTPException(400))]
    /\ UNCHANGED <<storageVars, pc, now, requestVars, i, extractVars, evalVars,
                   replyVars, auditVars, traceVars>>

\* main.py:209-238  the extractor has answered for file i: the file is
\* classified; after the last file the eligible files are selected
ConcClassify(rq, out) ==
    LET filename == rq.log_file_names[rq.i]
        rf == [filename |-> filename, text |-> ProcessedText(out), src |-> rq.i]
        infos == Append(rq.processed_files_info, rf)
        valid == SelectValid(infos)
        nx == [rq EXCEPT !.processed_files_info = infos,
                         !.error_messages_for_log = @ \o ErrorNotes(filename, out),
                         !.outs = Append(@, [op |-> "extract", src |-> rq.i,
                                             timedOut |-> FALSE, val |-> out])]
    IN  IF rq.i < Len(rq.log_file_names)
        THEN [nx EXCEPT !.i = rq.i + 1, !.pc = "ocr"]
        ELSE IF valid = <<>>
        THEN ConcRaise([nx EXCEPT !.valid_resumes_for_llm = valid], HTTPException(400))
        ELSE [nx EXCEPT !.valid_resumes_for_llm = valid, !.i = 1,
                        !.pc = IF SelectMode(rq.query) = "ranking"
                               THEN "evaluate" ELSE "summarize"]

\* ocr.py:37-67  process_file is entered for file i
ConcProcessFile(r) ==
    /\ req[r].pc = "ocr" /\ LoopFree(r)
    /\ LET rq == req[r]
           kind == rq.files[rq.i].kind
       IN  IF kind = "pdf_text"
           THEN \E out \in ConcOutcomes(kind) :
                    req' = [req EXCEPT ![r] = ConcClassify(rq, out)]
           ELSE req' = [req EXCEPT ![r].pc =
                           IF kind = "pdf_scan" THEN "readtext" ELSE "executor"]
    /\ UNCHANGED <<storageVars, pc, now, requestVars, i, extractVars, evalVars,
                   replyVars, auditVars, traceVars>>

\* ocr.py:98-114  reader.readtext, called in the coroutine, returns
ConcReadtextReturns(r) ==
    /\ req[r].pc = "readtext" /\ LoopFree(r)
    /\ \E out \in ConcOutcomes("pdf_scan") :
         req' = [req EXCEPT ![r] = ConcClassify(req[r], out)]
    /\ UNCHANGED <<storageVars, pc, now, requestVars, i, extractVars, evalVars,
                   replyVars, auditVars, traceVars>>

\* ocr.py:128-133  the executor's future is done and the coroutine resumes
ConcExecutorDone(r) ==
    /\ req[r].pc = "executor" /\ LoopFree(r)
    /\ \E out \in ConcOutcomes("image") :
         req' = [req EXCEPT ![r] = ConcClassify(req[r], out)]
    /\ UNCHANGED <<storageVars, pc, now, requestVars, i, extractVars, evalVars,
                   replyVars, auditVars, traceVars>>

ConcLogEntryGlobalNames(r, final_result) ==
    LogEntry(req[r].request_id, req[r].user_id, req[r].start_time, req[r].query,
             req[1].log_file_names \o req[2].log_file_names, final_result,
             req[r].error_messages_for_log)

\* main.py:343-351  the run's audit record
ConcLogEntry(r, final_result) ==
    LogEntry(req[r].request_id, req[r].user_id, req[r].start_time, req[r].query,
             req[r].log_file_names, final_result, req[r].error_messages_for_log)

\* main.py:273-304  (AppendMatch on the run's own locals)
ConcAppendMatch(r, rq, entry) ==
    LET rs == Append(rq.ranking_results, entry)
        sorted == SortRanking(rs)
    IN  IF rq.i < Len(rq.valid_resumes_for_llm)
        THEN [rq EXCEPT !.ranking_results = rs, !.i = rq.i + 1, !.pc = "evaluate"]
        ELSE [rq EXCEPT !.ranking_results = sorted,
                        !.response_data =
                            RankingResponse(rq.request_id, rq.user_id, rq.query, sorted),
                        !.log_entry = ConcLogEntry(r, sorted),
                        !.pc = "audit"]

\* main.py:322-339  (AppendSummary on the run's own locals)
ConcAppendSummary(r, rq, entry) ==
    LET ss == Append(rq.summaries, entry)
    IN  IF rq.i < Len(rq.valid_resumes_for_llm)
        THEN [rq EXCEPT !.summaries = ss, !.i = rq.i + 1, !.pc = "summarize"]
        ELSE [rq EXCEPT !.summaries = ss,
                        !.response_data =
                            SummariesResponse(rq.request_id, rq.user_id, ss),
                        !.log_entry = ConcLogEntry(r, ss),
                        !.pc = "audit"]

\* main.py:253-263,280-286  await wait_for(evaluate_resume(...), 60)
ConcEvaluateFile(r) ==
    /\ req[r].pc = "evaluate" /\ LoopFree(r)
    /\ \E call \in {Expired} \cup Returned(ConcEvalResults) :
         LET timedOut == call.timedOut
             result == call.val
             rq == [req[r] EXCEPT !.outs =
                        Append(@, [op |-> "evaluate",
                                   src |-> req[r].valid_resumes_for_llm[req[r].i].src,
                                   timedOut |-> timedOut, val |-> result])]
             rf == rq.valid_resumes_for_llm[rq.i]
             e == evaluate_resume(result)
         IN  req' = [req EXCEPT ![r] =
                 IF timedOut THEN ConcAppendMatch(r, rq, TimeoutMatch(rf))
                 ELSE [rq EXCEPT !.justification = e.justification,
                                 !.score = e.score, !.pc = "details"]]
    /\ UNCHANGED <<storageVars, pc, now, requestVars, i, extractVars, evalVars,
                   replyVars, auditVars, traceVars>>

\* main.py:265-286  await wait_for(summarize_resume(...), 30), then the entry
ConcDetailFile(r) ==
    /\ req[r].pc = "details" /\ LoopFree(r)
    /\ \E call \in {Expired} \cup Returned(ConcSummResults) :
         LET timedOut == call.timedOut
             result == call.val
             rq == [req[r] EXCEPT !.outs =
                        Append(@, [op |-> "details",
                                   src |-> req[r].valid_resumes_for_llm[req[r].i].src,
                                   timedOut |-> timedOut, val |-> result])]
             rf == rq.valid_resumes_for_llm[rq.i]
             d == summarize_resume(result, rf.filename)
         IN  req' = [req EXCEPT ![r] =
                 IF timedOut THEN ConcAppendMatch(r, rq, TimeoutMatch(rf))
                 ELSE IF QueryMatchValid(rq.justification)
                 THEN ConcAppendMatch(r, rq, QueryMatch(rf, rq.score, rq.justification, d))
                 ELSE ConcRaise(rq, ValidationError)]
    /\ UNCHANGED <<storageVars, pc, now, requestVars, i, extractVars, evalVars,
                   replyVars, auditVars, traceVars>>

\* main.py:310-330  await wait_for(summarize_resume(...), 30)
ConcSummarizeFile(r) ==
    /\ req[r].pc = "summarize" /\ LoopFree(r)
    /\ \E call \in {Expired} \cup Returned(ConcSummResults) :
         LET timedOut == call.timedOut
             result == call.val
             rq == [req[r] EXCEPT !.outs =
                        Append(@, [op |-> "summarize",
                                   src |-> req[r].valid_resumes_for_llm[req[r].i].src,
                                   timedOut |-> timedOut, val |-> result])]
             rf == rq.valid_resumes_for_llm[rq.i]
             s == summarize_resume(result, rf.filename)
         IN  req' = [req EXCEPT ![r] =
                 IF timedOut
                 THEN ConcAppendSummary(r, rq, PlaceholderSummary(rf, SUMMARY_TIMEOUT))
                 ELSE IF s # NoSummary
                 THEN ConcAppendSummary(r, rq, KeptSummary(rf, s))
                 ELSE ConcAppendSummary(r, rq, PlaceholderSummary(rf, SUMMARY_FAILED))]
    /\ UNCHANGED <<storageVars, pc, now, requestVars, i, extractVars, evalVars,
                   replyVars, auditVars, traceVars>>

\* main.py:353-361  save_log on the shared connection, then the response
ConcSaveLog(r) ==
    /\ req[r].pc = "audit" /\ LoopFree(r)
    /\ \E outcome \in ConnOutcomes, insertOk \in BOOLEAN :
         LET sv == save_log(mongo_client, db, outcome, insertOk)
         IN  /\ mongo_client' = sv.mongo_client /\ db' = sv.db
             /\ logs' = IF sv.stored THEN Append(logs, LogDict(req[r].log_entry))
                        ELSE logs
    /\ req' = [req EXCEPT ![r].status = 200, ![r].body = req[r].response_data,
                          ![r].pc = "done"]
    /\ UNCHANGED <<pc, now, requestVars, i, extractVars, evalVars, replyVars,
                   auditVars, traceVars>>

\* the steps of run r
ConcStep(r) ==
    \/ ConcReceive(r)
    \/ ConcReadFile(r)
    \/ ConcProcessFile(r)
    \/ ConcReadtextReturns(r)
    \/ ConcExecutorDone(r)
    \/ ConcEvaluateFile(r)
    \/ ConcDetailFile(r)
    \/ ConcSummarizeFile(r)
    \/ ConcSaveLog(r)

ConcNext ==
    \/ Startup
    \/ \E r \in Requests : ConcStep(r)

ConcSpec == Init /\ [][ConcNext]_vars

\* ================================================= the connection globals
\* Any sequence of calls of connect_to_mongo, close_mongo_connection and
\* get_db, up to MaxCalls calls.

\* storage.py:13-26
ConnectCall ==
    /\ Len(calls) < MaxCalls
    /\ \E outcome \in ConnOutcomes :
         LET c == connect_to_mongo(mongo_client, db, outcome)
         IN  /\ mongo_client' = c.mongo_client /\ db' = c.db
             /\ pinged' = (pinged \/ c.ret)
             /\ lastConnect' = (IF c.ret THEN "ok" ELSE "failed")
             /\ calls' = Append(calls, <<"connect_to_mongo", outcome>>)
    /\ UNCHANGED <<got, retried>>
    /\ UNCHANGED <<logs, pc, now, requestVars, i, extractVars, evalVars, replyVars,
                   auditVars, concVars>>

\* storage.py:28-33
CloseCall ==
    /\ Len(calls) < MaxCalls
    /\ LET c == close_mongo_connection(mongo_client, db)
       IN  mongo_client' = c.mongo_client /\ db' = c.db
    /\ pinged' = FALSE
    /\ calls' = Append(calls, <<"close_mongo_connection", "none">>)
    /\ UNCHANGED <<lastConnect, got, retried>>
    /\ UNCHANGED <<logs, pc, now, requestVars, i, extractVars, evalVars, replyVars,
                   auditVars, concVars>>

\* storage.py:35-40
GetDbCall ==
    /\ Len(calls) < MaxCalls
    /\ \E outcome \in ConnOutcomes :
         LET connects == (db = None \/ mongo_client = None)
             g == get_db(mongo_client, db, outcome)
         IN  /\ mongo_client' = g.mongo_client /\ db' = g.db
             /\ retried' = connects
             /\ got' = (IF g.raised THEN "raise" ELSE "handle")
             /\ pinged' = (pinged \/ (connects /\ ~g.raised))
             /\ lastConnect' = (IF ~connects THEN lastConnect
                                ELSE IF g.raised THEN "failed" ELSE "ok")
             /\ calls' = Append(calls, <<"get_db", IF connects THEN outcome ELSE "none">>)
    /\ UNCHANGED <<logs, pc, now, requestVars, i, extractVars, evalVars, replyVars,
                   auditVars, concVars>>

StorageNext ==
    \/ ConnectCall
    \/ CloseCall
    \/ GetDbCall

StorageSpec == Init /\ [][StorageNext]_vars

\* ================================================================== claims
Done == pc = "done"
Accepted == pc = "done" /\ status = 200
Mode == SelectMode(query)

\* positions (in the submitted list) of the files for which the extractor
\* returned a non-empty text and no error
UsableIdx == { k \in 1..Len(extracted) : extracted[k] = "text" }
ExtractionOver == files # <<>> /\ Len(extracted) = Len(files)

\* C1: the shape of a 200 response depends on the query alone: a non-empty
\* query gives a ranking response that carries the query, a missing or empty
\* query gives a summaries response.
C1_ShapeByQuery ==
    Accepted =>
        /\ (query # None /\ query # "") =>
               (body.kind = "ranking" /\ body.query = query)
        /\ (query = None \/ query = "") => body.kind = "summaries"

\* an accepted request with an empty-string query, answered with summaries
\* although a completion call timed out
C1_Witness ==
    /\ Accepted /\ query = "" /\ body.kind = "summaries"
    /\ last.dt = "timeout"

\* C2: a request without files ends with a 400 and no payload; the extractor
\* and the completion service are never called and no audit write is tried.
C2_NoFiles ==
    (Done /\ files = <<>>) =>
        /\ status = 400 /\ body = NoResponse
        /\ extractCalls = 0 /\ completionCalls = <<>>
        /\ auditAttempts = 0 /\ logs = <<>>

C2_Witness == Done /\ files = <<>> /\ status = 400

\* C3: once every file has been through extraction, the request is rejected
\* with a 400 exactly when no file gave a usable text (a non-empty text
\* without an error), and a rejected request has made no completion call and
\* tried no audit write.
C3_AllUnusable ==
    (Done /\ ExtractionOver) =>
        /\ (UsableIdx = {}) =>
               /\ status = 400 /\ body = NoResponse
               /\ completionCalls = <<>> /\ auditAttempts = 0 /\ logs = <<>>
        /\ (UsableIdx # {}) => status # 400

\* the half that the handler does satisfy: no usable text, rejection
RejectsWhenNoneUsable ==
    (Done /\ ExtractionOver /\ UsableIdx = {}) =>
        /\ status = 400 /\ body = NoResponse
        /\ completionCalls = <<>> /\ auditAttempts = 0 /\ logs = <<>>

SortedStable(items) ==
    \A a, b \in 1..Len(items) :
        a < b => /\ items[a].score >= items[b].score
                 /\ items[a].score = items[b].score => items[a].src < items[b].src

\* C4: the ranking of a 200 response (and of its audit record) is in
\* non-increasing order of score, and entries of equal score are in the
\* order in which their files were submitted.
C4_SortedStable ==
    (Accepted /\ body.kind = "ranking") =>
        SortedStable(body.items) /\ SortedStable(log_entry.result)

\* a ranking of three entries with a tie and a strictly lower score, one of
\* the entries being a timeout placeholder
C4_Witness ==
    /\ Accepted /\ body.kind = "ranking" /\ Len(body.items) = 3
    /\ body.items[1].score = body.items[2].score
    /\ body.items[2].score > body.items[3].score
    /\ \E k \in 1..3 : body.items[k].justification = TIMEOUT_JUSTIFICATION

InRange(items) == \A k \in 1..Len(items) : items[k].score \in ScoreMin..ScoreMax

\* C5: every QueryMatch, while the ranking is built, in the response and in
\* the audit record, has a score between 0.0 and 1.0.
C5_ScoreInRange ==
    /\ InRange(ranking_results)
    /\ score \in ScoreMin..ScoreMax
    /\ body.kind = "ranking" => InRange(body.items)
    /\ Mode = "ranking" => InRange(log_entry.result)
    /\ \A k \in 1..Len(logs) : Mode = "ranking" => InRange(logs[k].result)

\* a stored ranking holding a score clamped from above (the service reported
\* 1.5), one clamped from below or defaulted, and a timeout placeholder
C5_Witness ==
    /\ Accepted /\ body.kind = "ranking" /\ Len(logs) = 1
    /\ \E k \in 1..Len(body.items) : body.items[k].score = ScoreMax
    /\ \E k \in 1..Len(body.items) :
           body.items[k].score = 0 /\ body.items[k].justification = "fits"
    /\ \E k \in 1..Len(body.items) : body.items[k].justification = TIMEOUT_JUSTIFICATION

SrcSet(items) == { items[k].src : k \in 1..Len(items) }
Increasing(items) == \A a, b \in 1..Len(items) : a < b => items[a].src < items[b].src
NamesMatch(items) == \A k \in 1..Len(items) : items[k].file_name = files[items[k].src]

\* C6: the result list of a 200 response has exactly one entry for each file
\* with a usable text, under that file's name: in summary mode in the order
\* of submission, in ranking mode in some order.
C6_OnePerUsable ==
    Accepted =>
        /\ Len(body.items) = Cardinality(UsableIdx)
        /\ SrcSet(body.items) = UsableIdx
        /\ NamesMatch(body.items)
        /\ body.kind = "summaries" => Increasing(body.items)

\* what the handler does satisfy: one entry for each file it selected for the
\* completion service (main.py:232)
OnePerSelected ==
    Accepted =>
        /\ Len(body.items) = Len(valid_resumes_for_llm)
        /\ SrcSet(body.items) = SrcSet(valid_resumes_for_llm)
        /\ NamesMatch(body.items)
        /\ body.kind = "summaries" => Increasing(body.items)

\* C7: the result list of a 200 response has one entry for each submitted
\* file, the files whose extraction failed included.
C7_OnePerSubmitted ==
    Accepted =>
        /\ Len(body.items) = Len(files)
        /\ SrcSet(body.items) = 1..Len(files)

Items == IF Mode = "ranking" THEN ranking_results ELSE summaries

IsTimeoutEntry(e) ==
    IF Mode = "ranking"
    THEN e.score = 0 /\ e.justification = TIMEOUT_JUSTIFICATION
    ELSE e.summary = SUMMARY_TIMEOUT

Placeholders == {TIMEOUT_JUSTIFICATION, EVAL_INVALID, EVAL_EXCEPTION}

\* the latest file's sub-calls are over
FileOver == last.ev = "timeout" \/ last.dt # "none"

HasZeroPlaceholder ==
    \E k \in 1..Len(ranking_results) :
        /\ ranking_results[k].src = last.src
        /\ ranking_results[k].score = 0
        /\ ranking_results[k].justification \in Placeholders

\* C9 as stated: in ranking mode, when either sub-call of a file has failed
\* or timed out, the request goes on and the file's entry has score 0.0 and a
\* placeholder justification.
C9_EitherSubcall ==
    (Mode = "ranking" /\ FileOver
       /\ (last.ev \in {"fail", "timeout"} \/ last.dt \in {"fail", "timeout"})) =>
        status \in {0, 200} /\ HasZeroPlaceholder

\* C9 amended: a timeout of either sub-call, or a failure of the evaluation,
\* gives the file an entry of score 0.0 with a placeholder justification and
\* the request goes on; a failure of the detail extraction alone leaves the
\* score and justification of the evaluation in the entry and only empties
\* name and title (the request ends with a 500 exactly when the justification
\* reported by the evaluation is not a string).
C9_TimeoutOrEvalFailure ==
    /\ (Mode = "ranking" /\ FileOver
          /\ (last.ev \in {"fail", "timeout"} \/ last.dt = "timeout")) =>
           status \in {0, 200} /\ HasZeroPlaceholder
    /\ (Mode = "ranking" /\ last.ev = "ok" /\ last.dt = "fail") =>
           IF QueryMatchValid(justification)
           THEN /\ status \in {0, 200}
                /\ \E k \in 1..Len(ranking_results) :
                       /\ ranking_results[k].src = last.src
                       /\ ranking_results[k].score = score
                       /\ ranking_results[k].justification =
                              (IF justification.t = "null"
                               THEN NO_JUSTIFICATION ELSE justification.s)
                       /\ ranking_results[k].name = None
                       /\ ranking_results[k].title = None
           ELSE status = 500

\* a 200 ranking whose last file was evaluated at 1.0 and then failed detail
\* extraction, next to a file whose evaluation failed
C9_Witness ==
    /\ Accepted /\ body.kind = "ranking"
    /\ last.ev = "ok" /\ last.dt = "fail"
    /\ \E k \in 1..Len(body.items) :
           body.items[k].src = last.src /\ body.items[k].score = ScoreMax
    /\ \E k \in 1..Len(body.items) : body.items[k].justification = EVAL_INVALID

\* C10: the audit write does not change the outcome: whatever save_log does,
\* the step that performs it ends the request with status 200 and the
\* response assembled before the write.
C10_AuditNeverChangesResponse ==
    [][pc = "audit" =>
          /\ status' = 200
          /\ body' = response_data /\ response_data' = response_data
          /\ body'.items = (IF Mode = "ranking" THEN ranking_results ELSE summaries)]_vars

\* a request answered with 200 although save_log raised because no connection
\* could be made
C10_Witness ==
    /\ Accepted /\ auditAttempts = 1 /\ auditResult = "raise" /\ mongo_client = None
    /\ logs = <<>> /\ body = response_data /\ body.kind # "none"

\* C11: for every accepted request the audit record's files_processed is the
\* list of submitted filenames, complete and in submission order, whichever
\* files failed extraction or completion; the stored document carries the
\* same list.
C11_FilesProcessed ==
    /\ (pc = "audit" \/ Accepted) => log_entry.files_processed = files
    /\ Accepted => \A k \in 1..Len(logs) : logs[k].files_processed = files

\* an accepted request of three files, one failed at extraction and one timed
\* out at completion, whose stored record lists all three names
C11_Witness ==
    /\ Accepted /\ Len(files) = MaxFiles /\ Len(logs) = 1
    /\ \E k \in 1..Len(extracted) : extracted[k] = "error"
    /\ last.dt = "timeout"
    /\ Len(body.items) < Len(files)
    /\ logs[1].files_processed = files

\* C12: every request is recorded in the audit log: whatever its outcome
\* (200, 400 or 500), an audit write has been attempted for it by the time it
\* ends.
C12_EveryRequestAudited ==
    Done => auditAttempts >= 1

\* C13: a request ends in exactly one of three outcomes: a 200 with a
\* complete summaries payload, a 200 with a complete ranking payload, or an
\* error status with no payload at all. A payload holds entries of one kind
\* only, one per file passed to the completion service, and nothing is sent
\* before the request ends.
C13_OneOutcome ==
    /\ ~Done => (status = 0 /\ body = NoResponse)
    /\ Done =>
        \/ /\ status = 200 /\ body.kind = "summaries" /\ Mode = "summaries"
           /\ body.items = summaries /\ ranking_results = <<>>
           /\ Len(body.items) = Len(valid_resumes_for_llm)
        \/ /\ status = 200 /\ body.kind = "ranking" /\ Mode = "ranking"
           /\ body.items = ranking_results /\ summaries = <<>>
           /\ Len(body.items) = Len(valid_resumes_for_llm)
        \/ /\ status \in {400, 500} /\ body = NoResponse

\* a ranking request that ends with a 500 and no payload although entries of
\* earlier files had already been computed
C13_Witness ==
    /\ Done /\ status = 500 /\ body = NoResponse
    /\ ranking_results # <<>> /\ Len(valid_resumes_for_llm) > Len(ranking_results)

\* C14: an exception that no local handler catches (here the validation
\* error raised when the evaluation reported a justification that is not a
\* string) ends the whole request with a 500 and no payload; a 400 rejection
\* raised inside the pipeline (no files, unreadable upload, no usable text)
\* reaches the caller as a 400 and is never turned into a 500.
C14_ErrorSurfacing ==
    Done =>
        /\ status = 400 <=>
               \/ files = <<>>
               \/ Len(log_file_names) < Len(files)
               \/ (ExtractionOver /\ valid_resumes_for_llm = <<>>)
        /\ status = 500 <=>
               /\ Mode = "ranking" /\ last.dt \in {"ok", "fail"}
               /\ ~QueryMatchValid(justification)
        /\ status \in {400, 500} => body = NoResponse

\* a ranking request rejected with a 400 after every file went through the
\* extractor and none was left for the completion service
C14_Witness ==
    /\ Done /\ status = 400 /\ Mode = "ranking"
    /\ extractCalls = MaxFiles /\ valid_resumes_for_llm = <<>>
    /\ completionCalls = <<>> /\ body = NoResponse

\* C15: for every accepted request the audit record handed to save_log has
\* the request id and user id of the response, the query of the request
\* (which is the query of a ranking response), and as result the very list of
\* the response, in the same order (the sorted ranking in ranking mode); its
\* timestamp is the start time, which is taken once, before any extraction or
\* completion call. The stored document is that record with the timestamp in
\* ISO format.
C15_RecordMatchesResponse ==
    /\ [](Accepted =>
            /\ log_entry.request_id = body.request_id
            /\ log_entry.user_id = body.user_id
            /\ log_entry.query = query
            /\ body.kind = "ranking" => log_entry.query = body.query
            /\ log_entry.result = body.items
            /\ body.kind = "ranking" => SortedStable(log_entry.result)
            /\ log_entry.timestamp = start_time
            /\ \A k \in 1..Len(logs) : logs[k] = LogDict(log_entry))
    /\ [][/\ start_time' # start_time =>
               /\ start_time' = now
               /\ extractCalls = 0 /\ completionCalls = <<>>
          /\ (extractCalls' # extractCalls \/ completionCalls' # completionCalls) =>
               /\ start_time' = start_time /\ start_time < now]_vars

\* an accepted ranking of two files that the sort reordered, stored in the
\* logs collection
C15_Witness ==
    /\ Accepted /\ body.kind = "ranking" /\ Len(logs) = 1
    /\ Len(body.items) = 2 /\ body.items[1].src > body.items[2].src
    /\ logs[1].result = body.items /\ logs[1].timestamp = <<"iso", start_time>>
    /\ user_id = DEFAULT_USER_ID /\ request_id = GeneratedUuid
    /\ now > start_time + 1

\* the extraction loop has been entered and has ended
PastExtraction ==
    \/ pc \in {"evaluate", "details", "summarize", "audit"}
    \/ (Done /\ files # <<>> /\ Len(log_file_names) = Len(files))

\* C16: extraction outcomes are isolated per file. The extractor is called
\* once for every submitted file, whatever happened to the files before it;
\* the text recorded for a file follows from that file's own outcome (the
\* error marker, the exception marker, the no-text marker, or the text the
\* extractor returned); and a file whose extraction reported an error,
\* returned nothing or raised is never passed to the completion service.
C16_ExtractionIsolated ==
    /\ Len(extracted) = extractCalls /\ Len(processed_files_info) = extractCalls
    /\ pc = "ocr" => (status = 0 /\ extractCalls = i - 1)
    /\ PastExtraction => extractCalls = Len(files)
    /\ \A k \in 1..Len(extracted) :
         LET rf == processed_files_info[k]
         IN  /\ rf.filename = files[k] /\ rf.src = k
             /\ extracted[k] = "error" =>
                    rf.text \in { OcrErrorPrefix \o e : e \in ErrTexts }
             /\ extracted[k] = "raise" =>
                    rf.text \in { ProcessingErrorPrefix \o e : e \in ErrTexts }
             /\ extracted[k] = "empty" => rf.text = NoTextExtracted
             /\ extracted[k] = "text" => rf.text \in DocTexts \ {<<>>}
             /\ extracted[k] \in {"error", "raise", "empty"} =>
                    /\ k \notin SrcSet(valid_resumes_for_llm)
                    /\ \A c \in 1..Len(completionCalls) : completionCalls[c][1] # k

\* a request whose first file failed with an extractor error and whose second
\* returned nothing, while the third was extracted and sent to the completion
\* service
C16_Witness ==
    /\ Len(files) = 3 /\ extractCalls = 3
    /\ extracted = <<"error", "empty", "text">>
    /\ SrcSet(valid_resumes_for_llm) = {3}
    /\ completionCalls # <<>> /\ completionCalls[1][1] = 3

\* C17: a file is eligible for the completion service exactly when the
\* extractor returned a non-empty text and no error for it: once extraction
\* is over the selected files are the files with a usable text, whatever that
\* text says, and on an accepted request each of them has been sent to the
\* completion service.
C17_EligibleIffUsable ==
    /\ ExtractionOver => SrcSet(valid_resumes_for_llm) = UsableIdx
    /\ Accepted => \A k \in UsableIdx :
           \E c \in 1..Len(completionCalls) : completionCalls[c][1] = k

\* the justification an entry carries for the evaluation's justification
EntryJustification ==
    IF justification.t = "null" THEN NO_JUSTIFICATION ELSE justification.s

\* the entry of the file handled last has the given score and justification
LastEntryHas(sc, just) ==
    \E k \in 1..Len(ranking_results) :
        /\ ranking_results[k].src = last.src
        /\ ranking_results[k].score = sc
        /\ ranking_results[k].justification = just

\* C18 as stated: in ranking mode a file's score and justification come from
\* its compatibility evaluation alone: whatever the outcome of its detail
\* extraction (success, failure or timeout), the entry carries the score and
\* the justification the evaluation returned.
C18_EvaluationAlone ==
    (Mode = "ranking" /\ last.ev \in {"ok", "fail"} /\ last.dt # "none"
       /\ status \in {0, 200}) =>
        LastEntryHas(score, EntryJustification)

\* C18 amended: when the detail extraction returns, successfully or not, the
\* entry carries the score and justification of the evaluation (and the
\* request ends with a 500 either way when that justification is not a
\* string); when the detail extraction times out, the entry has score 0.0 and
\* the timeout justification, whatever the evaluation returned.
C18_EvaluationUnlessDetailTimeout ==
    /\ (Mode = "ranking" /\ last.ev \in {"ok", "fail"} /\ last.dt \in {"ok", "fail"}) =>
           IF QueryMatchValid(justification)
           THEN status \in {0, 200} /\ LastEntryHas(score, EntryJustification)
           ELSE status = 500
    /\ (Mode = "ranking" /\ last.ev \in {"ok", "fail"} /\ last.dt = "timeout") =>
           status \in {0, 200} /\ LastEntryHas(0, TIMEOUT_JUSTIFICATION)

\* an accepted ranking of two files, both evaluated at 1.0: the detail
\* extraction of the first succeeded and its entry keeps the score, that of
\* the second timed out and its entry has score 0.0
C18_Witness ==
    /\ Accepted /\ body.kind = "ranking" /\ Len(body.items) = 2
    /\ last.ev = "ok" /\ last.dt = "timeout" /\ score = ScoreMax
    /\ body.items[1].score = ScoreMax /\ body.items[1].name # None
    /\ body.items[2].src = last.src /\ body.items[2].score = 0
    /\ body.items[2].justification = TIMEOUT_JUSTIFICATION

\* the positions, in input order, of the files whose extraction was unusable
RECURSIVE UnusableFrom(_)
UnusableFrom(k) ==
    IF k > Len(extracted) THEN <<>>
    ELSE (IF extracted[k] # "text" THEN <<k>> ELSE <<>>) \o UnusableFrom(k + 1)

\* the notes file k can have, by the outcome of its extraction
NotesOf(k) ==
    CASE extracted[k] = "error" ->
             { <<files[k], ": OCR Error - ">> \o e : e \in ErrTexts }
      [] extracted[k] = "raise" ->
             { <<files[k], ": Processing Error - ">> \o e : e \in ErrTexts }
      [] OTHER -> { <<files[k], ": No text extracted after OCR.">> }

\* the notes of the files at positions u, in that order, joined by "; "
RECURSIVE MessagesOf(_)
MessagesOf(u) ==
    IF Len(u) = 1 THEN NotesOf(u[1])
    ELSE { n \o <<"; ">> \o m : n \in NotesOf(u[1]), m \in MessagesOf(Tail(u)) }

\* C19: for every accepted request the audit record's error message is made
\* of exactly one note per file whose extraction was unusable (error,
\* exception or no text), in input order, joined by "; "; it is null exactly
\* when there is no such file. Failures and timeouts of the completion
\* service leave it unchanged.
C19_ErrorMessage ==
    /\ (pc = "audit" \/ Accepted) =>
           LET u == UnusableFrom(1)
           IN  IF u = <<>> THEN log_entry.error_message = NoneT
               ELSE /\ log_entry.error_message # NoneT
                    /\ log_entry.error_message \in MessagesOf(u)
    /\ Accepted => \A k \in 1..Len(logs) :
           logs[k].error_message = log_entry.error_message

\* an accepted request of three files: the first gave no text, the second an
\* extractor error, the third was usable and its completion call timed out;
\* the message holds the two notes in input order
C19_Witness ==
    /\ Accepted /\ extracted = <<"empty", "error", "text">>
    /\ last.src = 3 /\ (last.dt = "timeout" \/ last.ev = "timeout")
    /\ Len(logs) = 1
    /\ log_entry.error_message[1] = files[1]
    /\ \E p \in 3..Len(log_entry.error_message) :
           /\ log_entry.error_message[p] = "; "
           /\ log_entry.error_message[p + 1] = files[2]

\* every file passed to the completion service has its entry
CompletionOver ==
    /\ Len(Items) = Len(valid_resumes_for_llm)
    /\ SrcSet(Items) = SrcSet(valid_resumes_for_llm)

\* C20: within a request the phases come in a fixed order. A completion call
\* is made only when the extractor has been called for every file, and no
\* extraction follows it; the audit write is attempted only when every
\* eligible file has its entry, at most once, and no completion call follows
\* it; a 200 response is returned only in a state where the one audit
\* attempt has ended with a result.
C20_PhaseOrder ==
    /\ [](/\ completionCalls # <<>> => extractCalls = Len(files)
          /\ auditAttempts <= 1
          /\ auditAttempts = 1 => (CompletionOver /\ auditResult # "none")
          /\ (status = 200 \/ body # NoResponse) =>
                 (auditAttempts = 1 /\ auditResult # "none"))
    /\ [][/\ extractCalls' # extractCalls =>
               (completionCalls = <<>> /\ auditAttempts = 0)
          /\ completionCalls' # completionCalls =>
               /\ extractCalls = Len(files) /\ extractCalls' = extractCalls
               /\ auditAttempts = 0 /\ auditAttempts' = 0
          /\ auditAttempts' # auditAttempts =>
               /\ auditAttempts = 0 /\ status = 0 /\ body = NoResponse
               /\ CompletionOver /\ completionCalls' = completionCalls
               /\ extractCalls' = extractCalls]_vars

\* a finished ranking request: three extractor calls, then the two completion
\* calls of each of the three files, then one audit attempt, then the 200
C20_Witness ==
    /\ Accepted /\ Mode = "ranking"
    /\ extractCalls = 3 /\ Len(completionCalls) = 6
    /\ auditAttempts = 1 /\ auditResult = "true" /\ Len(logs) = 1

\* C21: save_log is best-effort: whatever the record and the state of the
\* database connection, it returns True or False and never raises to its
\* caller.
C21_SaveLogNeverRaises ==
    auditResult \in {"none", "true", "false"}

\* run r has been received and has not ended
InFlight(r) == req[r].pc \notin {"idle", "done"}

\* run r is inside the extractor's recognition work
Recognising(r) == req[r].pc \in {"readtext", "executor"}

\* C22: recognition work never stalls the event loop: while one run's
\* recognition (of an image, or of a PDF that needs OCR) is in progress, every
\* other run in flight is able to take a step.
C22_LoopNeverStalled ==
    \A r, s \in Requests :
        (r # s /\ Recognising(r) /\ InFlight(s)) => ENABLED ConcStep(s)

\* ---- what run r returns and records when it runs alone with the
\* collaborator outcomes noted in req[r].outs
OutsOf(r, op) == SelectSeq(req[r].outs, LAMBDA o : o.op = op)
OutFor(r, op, src) == (CHOOSE o \in { OutsOf(r, op)[k] : k \in 1..Len(OutsOf(r, op)) } :
                           o.src = src)

AloneInfos(r) ==
    [k \in 1..Len(OutsOf(r, "extract")) |->
        [filename |-> ConcNames[r][k],
         text |-> ProcessedText(OutsOf(r, "extract")[k].val), src |-> k]]

RECURSIVE AloneNotes(_, _)
AloneNotes(r, k) ==
    IF k > Len(OutsOf(r, "extract")) THEN <<>>
    ELSE ErrorNotes(ConcNames[r][k], OutsOf(r, "extract")[k].val) \o AloneNotes(r, k + 1)

AloneMatch(r, rf) ==
    LET e == OutFor(r, "evaluate", rf.src)
    IN  IF e.timedOut THEN TimeoutMatch(rf)
        ELSE LET d == OutFor(r, "details", rf.src)
                 ev == evaluate_resume(e.val)
             IN  IF d.timedOut THEN TimeoutMatch(rf)
                 ELSE QueryMatch(rf, ev.score, ev.justification,
                                 summarize_resume(d.val, rf.filename))

AloneSummary(r, rf) ==
    LET c == OutFor(r, "summarize", rf.src)
    IN  IF c.timedOut THEN PlaceholderSummary(rf, SUMMARY_TIMEOUT)
        ELSE LET s == summarize_resume(c.val, rf.filename)
             IN  IF s # NoSummary THEN KeptSummary(rf, s)
                 ELSE PlaceholderSummary(rf, SUMMARY_FAILED)

AloneItems(r) ==
    LET valid == SelectValid(AloneInfos(r))
    IN  IF SelectMode(req[r].query) = "ranking"
        THEN SortRanking([j \in 1..Len(valid) |-> AloneMatch(r, valid[j])])
        ELSE [j \in 1..Len(valid) |-> AloneSummary(r, valid[j])]

AloneRequestId(r) == IF r = 1 THEN "r1" ELSE GeneratedUuid
AloneUserId(r) == IF r = 1 THEN "u1" ELSE DEFAULT_USER_ID

ConcAccepted(r) == req[r].pc = "done" /\ req[r].status = 200

\* C23: concurrent requests do not interfere: however the steps of the two
\* runs interleave, an accepted run's response and audit record hold only its
\* own ids, its own files and its own results, and they are what the run
\* gives alone with the same extractor and completion outcomes; the document
\* stored for it is its own record; a run that ends in error has no payload.
C23_NoInterference ==
    \A r \in Requests :
        /\ (req[r].pc = "done" /\ req[r].status # 200) =>
               (req[r].status \in {400, 500} /\ req[r].body = NoResponse)
        /\ ConcAccepted(r) =>
            LET b == req[r].body
                e == req[r].log_entry
                own == { ConcNames[r][k] : k \in 1..Len(req[r].files) }
            IN  /\ b.request_id = AloneRequestId(r) /\ b.user_id = AloneUserId(r)
                /\ b.kind = (IF SelectMode(req[r].query) = "ranking"
                             THEN "ranking" ELSE "summaries")
                /\ b.items = AloneItems(r)
                /\ \A k \in 1..Len(b.items) : b.items[k].file_name \in own
                /\ e.request_id = b.request_id /\ e.user_id = b.user_id
                /\ e.query = req[r].query /\ e.timestamp = req[r].start_time
                /\ e.files_processed =
                       [k \in 1..Len(req[r].files) |-> req[r].files[k].filename]
                /\ e.result = b.items
                /\ e.error_message =
                       (IF AloneNotes(r, 1) = <<>> THEN NoneT
                        ELSE Join(AloneNotes(r, 1)))
                /\ \A k \in 1..Len(logs) :
                       logs[k].request_id = e.request_id => logs[k] = LogDict(e)

\* both runs accepted, one in ranking mode and one in summary mode, each after
\* a completion timeout; the run received with ids stored its record after
\* the other one
C23_Witness ==
    /\ ConcAccepted(1) /\ ConcAccepted(2)
    /\ req[1].body.kind = "ranking" /\ req[2].body.kind = "summaries"
    /\ Len(logs) = 2
    /\ logs[1].request_id = GeneratedUuid /\ logs[2].request_id = "r1"
    /\ req[1].body.items[1].justification = TIMEOUT_JUSTIFICATION
    /\ req[2].body.items[1].summary = SUMMARY_TIMEOUT

\* C24: every request that has been received eventually ends, with a
\* response or with an error, provided the uploads, the extractor and the
\* audit sink return: a completion call that does not return is ended by its
\* budget and replaced by a placeholder.
C24_RequestEnds ==
    (pc \in {"read", "ocr", "evaluate", "details", "summarize", "audit"}) ~> Done

\* a request that ended with a 200 although the evaluation of its first file
\* and the detail extraction of its last file ran out of budget
C24_Witness ==
    /\ Accepted /\ Mode = "ranking" /\ Len(body.items) = 2
    /\ last.dt = "timeout"
    /\ \E k \in 1..Len(body.items) :
           /\ body.items[k].src # last.src
           /\ body.items[k].justification = TIMEOUT_JUSTIFICATION

\* the step is a call of get_db
IsGetDbStep ==
    Len(calls') = Len(calls) + 1 /\ calls'[Len(calls')][1] = "get_db"

\* C25: after any sequence of connect_to_mongo, close_mongo_connection and
\* get_db calls, get_db returns a handle only if a ping has succeeded since
\* the last close; and when the latest connection attempt failed, get_db
\* connects again and raises if that attempt fails too.
C25_HandleOnlyWhenConnected ==
    [][IsGetDbStep =>
          /\ got' = "handle" => pinged'
          /\ lastConnect = "failed" =>
                 (retried' /\ (lastConnect' = "failed" => got' = "raise"))]_vars

====
